---- MODULE Spec2Model ----
(***************************************************************************)
(* cygnus: the concurrent collection-and-cache pipeline of main.go (the    *)
(* variant with getTasks/getTask, lines 30-213) together with the          *)
(* fingerprinted cache store (newDB/addTask/addSing/addReq).               *)
(*                                                                         *)
(* Goroutines of the model:                                                *)
(*   main      the orchestrator: lists the tasks of every request,         *)
(*             dispatches one getTask per unseen id, waits, flushes        *)
(*   getTask   one per dispatched task id                                  *)
(*   tabRows   the single consumer of the lines channel                    *)
(*   func      one anonymous goroutine per received line (db.addTask)      *)
(* A panic in any goroutine ends the process (panic), as does the return   *)
(* of main (mainpc = "exited").                                            *)
(***************************************************************************)
EXTENDS Integers, Sequences, FiniteSets, TLC

\* ---------------------------------------------------------------- bounds
MaxTasks == 2
NumReqs == 2
MaxList == 2
MaxUpdates == 2
MaxTs == 2
NumVars == 1
MaxStmts == 2
MaxFrags == 2
MaxRuns == 2

\* ------------------------------------------------------ program constants
Retries == 3
LinesCap == 20
Now == 1
FreshWindow == 1

\* ------------------------------------------------------------ the inputs
TaskIds == 1..MaxTasks
\* a history entry whose TaskId pointer is nil
NoId == 0
\* taskReq stays nil when no request of reqList has the task's RequestId
NoReq == 0

TaskStates == {"TASK_RUNNING", "TASK_FAILED"}

SeqsUpTo(S, k) == UNION {[1..m -> S] : m \in 0..k}

\* What the upstream Singularity holds, fixed for the run: the requests of
\* reqList are 1..reqs, the listings hold ids of tasks (or nil ids), the
\* TaskUpdates of a task history hold at most updates entries with
\* timestamps up to ts, and the response of a failed call may (partial) or
\* may not carry updates.
\*   Upstream      several requests and tasks with short histories
\*   OneTask       one request and one task with a long history
Upstream ==
  [reqs |-> NumReqs, tasks |-> TaskIds, updates |-> 1, ts |-> 1,
   partial |-> FALSE, requestIds |-> NumReqs + 1]
OneTask ==
  [reqs |-> 1, tasks |-> {1}, updates |-> MaxUpdates, ts |-> MaxTs,
   partial |-> TRUE, requestIds |-> NumReqs + 1]
\*   OneRequest    one request that all the tasks belong to
OneRequest ==
  [reqs |-> 1, tasks |-> TaskIds, updates |-> 1, ts |-> 1,
   partial |-> FALSE, requestIds |-> 1]

\* the status updates a task history of the upstream u may hold
UpdatesOf(u) == [Timestamp : 1..u.ts, TaskState : TaskStates]
\* what taskHistory.TaskUpdates may hold after a call without error
UpdateLists(u) == SeqsUpTo(UpdatesOf(u), u.updates)
\* what it may hold after a failed call, of which main.go:111 reads the
\* first element only
FailedUpdateLists(u) == SeqsUpTo(UpdatesOf(u), IF u.partial THEN 1 ELSE 0)

\* the *SingularityTaskHistoryUpdate held by lastUpdate: call and pos say
\* which element of which call's TaskUpdates the pointer refers to
NilUpdate == [call |-> 0, pos |-> 0, Timestamp |-> 0, TaskState |-> "nil"]
UpdatePtr(c, list, p) ==
  [call |-> c, pos |-> p, Timestamp |-> list[p].Timestamp,
   TaskState |-> list[p].TaskState]

\* the SingularityTaskHistoryUpdate field of a taskDesc: "nil", or the
\* TaskState of the update it points to
NoStatus == "nil"
\* the taskDesc a fetch has not built
NoDesc == [update |-> NoStatus, req |-> NoReq, docker |-> FALSE]

\* cmd.Environment.Variables of a task that has an environment
Variables == 1..NumVars
\* id.DeployId of a task id
DeployIdOf(t) == t

Range(f) == {f[i] : i \in DOMAIN f}

\* ------------------------------------------------- schema and fingerprint
\* The text of a schema statement is a sequence of characters. The texts
\* considered are made of these pieces: a line feed, and a digit with a
\* colon.
Fragments == { << "LF" >>, << "1", ":" >> }

RECURSIVE Concat(_)
Concat(texts) == IF texts = << >> THEN << >> ELSE Head(texts) \o Concat(Tail(texts))

RECURSIVE Pieces(_)
Pieces(sch) == IF sch = << >> THEN 0 ELSE Len(Head(sch)) + Pieces(Tail(sch))

\* a schema is a list of statements (part_000:17): the statement lists a
\* build may have compiled in, of at most MaxStmts statements and MaxFrags
\* pieces of text
Schemas ==
  { [i \in DOMAIN sch |-> Concat(sch[i])] :
      sch \in {x \in SeqsUpTo(SeqsUpTo(Fragments, MaxFrags), MaxStmts) :
                 x # << >> /\ Pieces(x) <= MaxFrags} }

\* the statement list of this build
schema == CHOOSE sch \in Schemas : Len(sch) = MaxStmts

DigitChars == << "0", "1", "2", "3", "4", "5", "6", "7", "8", "9" >>

\* %d
RECURSIVE Decimal(_)
Decimal(i) ==
  IF i < 10 THEN << DigitChars[i + 1] >>
  ELSE Decimal(i \div 10) \o << DigitChars[(i % 10) + 1] >>

\* part_000:250  fmt.Fprintf(h, "%d:%s\n", i, s): what the k first
\* statements write to the hash
RECURSIVE Fprintf(_, _)
Fprintf(sch, k) ==
  IF k = 0 THEN << >>
  ELSE Fprintf(sch, k - 1) \o Decimal(k - 1) \o << ":" >> \o sch[k] \o << "LF" >>

\* sha256 and base64 lose nothing: two inputs have the same digest only if
\* they are the same bytes
Sum(bytes) == [sha256 |-> bytes]
Base64(digest) == [base64 |-> digest]

\* part_000:247-257
fingerPrintSchema(sch) == Base64(Sum(Fprintf(sch, Len(sch))))

\* the file when it is absent or has no table
NoFile == [tables |-> << >>, fingerprint |-> {}]

\* the file groom leaves for a schema
Groomed(sch) == [tables |-> sch, fingerprint |-> {fingerPrintSchema(sch)}]


VARIABLES
  upstream,             \* what the upstream holds
  printInactiveTasks,   \* opts.printInactiveTasks
  mainpc,               \* where main is
  n,                    \* index of the request main is at
  phase,                \* which listing of request n main is at
  left,                 \* the number of entries of histo getTasks still has to visit
  hist,                 \* the id of the entry getTasks is at
  seen,                 \* the seen set
  counter,              \* the WaitGroup counter
  panic,                \* "none", or the place where a goroutine panicked
  returned,             \* history: the ids the inactive and the active listings returned
  scenario,             \* history: so far every request had one active task of its own and no other
  fpc,                  \* getTask(t): position
  calls,                \* getTask(t): upstream calls made
  errs,                 \* getTask(t): upstream calls that returned an error
  lastUpdate,           \* getTask(t): lastUpdate
  taskUpdates,          \* getTask(t): taskHistory.TaskUpdates of the call that succeeded
  desc,                 \* the taskDesc getTask(t) built
  dispatched,           \* history: number of getTask goroutines spawned for t
  incs,                 \* history: wait.Add(1) made by getTasks for t
  decs,                 \* history: decrements made on behalf of the fetch of t
  errLog,               \* history: log.Print(err) entries for t
  softLog,              \* history: log.Printf entries of the soft failures of t
  lines,                \* the lines channel
  tpc,                  \* tabRows: position
  line,                 \* tabRows: the line it holds
  received,             \* history: the lines tabRows received
  written,              \* rows written to the tabwriter
  report,               \* rows flushed to stdout
  wpc,                  \* the anonymous goroutine spawned for line t: position
  mutex,                \* database.Mutex: the holder, or 0
  store,                \* the rows of the sqlite tables of the file
  variant,              \* the store of this build: "fingerprinted" or "simple"
  compiled,             \* the schema statement list compiled into this build
  disk,                 \* the file: the statements that made its tables, the stored fingerprint
  gpc,                  \* newDB: position
  runs,                 \* the number of processes started so far
  atOpen,               \* history: the rows of the file when this process started
  groomed,              \* history: what groom found in this process
  txn,                  \* addTask(t): its locals sid, id (request), id (task)
  faults,               \* history: statements of addTask(t) that returned an error
  dbLog                 \* history: debug entries addTask(t) made for an error

vars ==
  << upstream, printInactiveTasks, mainpc, n, phase, left, hist, seen,
     counter, panic,
     returned, scenario, fpc, calls, errs, lastUpdate, taskUpdates, desc,
     dispatched, incs, decs, errLog, softLog, lines, tpc, line, received,
     written, report, wpc, mutex, store,
     variant, compiled, disk, gpc, runs, atOpen, groomed, txn, faults, dbLog >>

optVars == << upstream, printInactiveTasks >>
mainVars == << mainpc, n, phase, left, hist, seen, returned, scenario >>
waitVars == << counter, panic >>
fetchVars == << fpc, calls, errs, lastUpdate, taskUpdates, desc >>
countVars == << dispatched, incs, decs >>
logVars == << errLog, softLog >>
sinkVars == << tpc, line, received, written >>
dbVars == << wpc, mutex, store >>
lifeVars == << variant, compiled, disk, gpc, runs, atOpen, groomed >>
txnVars == << txn, faults, dbLog >>

\* id.RequestId of a task id: the upstream has requestIds of them; some
\* tasks may belong to a request that is not in reqList (above reqs)
RequestIdOf(t) == ((t - 1) % upstream.requestIds) + 1

\* the process is alive
Running == panic = "none" /\ mainpc # "exited"

EmptyStore ==
  [ singularity |-> {}, req |-> {}, task |-> {}, env |-> {},
    docker_image |-> {},
    seq |-> [singularity |-> 0, req |-> 0, task |-> 0, env |-> 0,
             docker_image |-> 0] ]

\* the locals of addTask before its first statement: sid, the id of the req
\* row, the id of the task row; start is history: the rows when it began
NoTxn == [sid |-> 0, req |-> 0, task |-> 0, start |-> EmptyStore]

\* main.go:65: the inactive listing comes first when it is asked for
FirstPhase == IF printInactiveTasks THEN "inactive" ELSE "active"

\* the state of main, the fetches, tabRows and the cache writers when main
\* has the request list (main.go:30-61)
MainStart(u) ==
  /\ upstream = u
  /\ printInactiveTasks \in BOOLEAN
  /\ mainpc = "list"
  /\ n = 1
  /\ phase = FirstPhase
  /\ left = 0
  /\ hist = NoId
  /\ seen = {}
  /\ counter = 0
  /\ panic = "none"
  /\ returned = [inactive |-> {}, active |-> {}]
  /\ scenario = TRUE
  /\ fpc = [t \in TaskIds |-> "idle"]
  /\ calls = [t \in TaskIds |-> 0]
  /\ errs = [t \in TaskIds |-> 0]
  /\ lastUpdate = [t \in TaskIds |-> NilUpdate]
  /\ taskUpdates = [t \in TaskIds |-> << >>]
  /\ desc = [t \in TaskIds |-> NoDesc]
  /\ dispatched = [t \in TaskIds |-> 0]
  /\ incs = [t \in TaskIds |-> 0]
  /\ decs = [t \in TaskIds |-> 0]
  /\ errLog = [t \in TaskIds |-> 0]
  /\ softLog = [t \in TaskIds |-> 0]
  /\ lines = << >>
  /\ tpc = "recv"
  /\ line = NoId
  /\ received = {}
  /\ written = << >>
  /\ report = << >>
  /\ wpc = [t \in TaskIds |-> "none"]
  /\ mutex = 0
  /\ txn = [t \in TaskIds |-> NoTxn]
  /\ faults = [t \in TaskIds |-> 0]
  /\ dbLog = [t \in TaskIds |-> 0]

\* the state of the program when main has the request list and the store:
\* the first run of the fingerprinted build, newDB has made the file
Start(u) ==
  /\ MainStart(u)
  /\ store = EmptyStore
  /\ variant = "fingerprinted"
  /\ compiled = schema
  /\ disk = Groomed(schema)
  /\ gpc = "ready"
  /\ runs = 1
  /\ atOpen = EmptyStore
  /\ groomed = "rebuilt"

Init == Start(Upstream)

InitOneTask == Start(OneTask)

\* ------------------------------------------------------------------ main
\* wait.Add(d) / wait.Done(): a negative counter panics
WgAdd(d) ==
  /\ counter' = counter + d
  /\ panic' = IF counter + d < 0 THEN "WaitGroup" ELSE panic

\* a path that ends the fetch without its decrement
FetchDoneMissing(t) == UNCHANGED << counter, panic, decs >>

\* a path that makes the decrement of the fetch twice
FetchDoneTwice(t) ==
  /\ WgAdd(-2)
  /\ decs' = [decs EXCEPT ![t] = @ + 2]

\* the decrement a fetch is owed: wait.Add(-1) in getTask (main.go:121, 136,
\* 146, 152), wait.Done() in tabRows (main.go:201)
FetchDone(t) ==
  /\ WgAdd(-1)
  /\ decs' = [decs EXCEPT ![t] = @ + 1]

\* main.go:80  _, have := seen[hist.TaskId.Id]
Have(s, id) == id \in s

\* the insertion left out
SeenInsertLost(s, id) == s

\* main.go:83  seen[hist.TaskId.Id] = struct{}{}
SeenInsert(s, id) == s \cup {id}

\* main.go:66 and 70: the listing call of the current phase returns a
\* listing of len entries (its error is discarded). The entries are drawn as
\* getTasks visits them. The stated scenario has no inactive and one active
\* task for every request.
ListTasks ==
  /\ Running
  /\ mainpc = "list"
  /\ \E len \in 0..MaxList :
       /\ left' = len
       /\ scenario' = (scenario /\ len = IF phase = "inactive" THEN 0 ELSE 1)
  /\ mainpc' = "getTasks"
  /\ UNCHANGED << optVars, lifeVars, txnVars, n, phase, hist, seen, returned, waitVars >>
  /\ UNCHANGED << fetchVars, countVars, logVars, lines, sinkVars, report,
                  dbVars >>

\* main.go:80 on an entry whose TaskId is nil: a nil dereference
GetTasksNilId ==
  /\ Running
  /\ mainpc = "getTasks"
  /\ left > 0
  /\ panic' = "getTasks"
  /\ UNCHANGED << optVars, lifeVars, txnVars, mainVars, counter >>
  /\ UNCHANGED << fetchVars, countVars, logVars, lines, sinkVars, report,
                  dbVars >>

\* main.go:80-82: the id of the next entry is in the seen set, continue
GetTasksSkip ==
  /\ Running
  /\ mainpc = "getTasks"
  /\ left > 0
  /\ \E id \in upstream.tasks :
       /\ Have(seen, id)
       /\ returned' = [returned EXCEPT ![phase] = @ \cup {id}]
  /\ left' = left - 1
  /\ scenario' = FALSE
  /\ UNCHANGED << optVars, lifeVars, txnVars, mainpc, n, phase, hist, seen, waitVars >>
  /\ UNCHANGED << fetchVars, countVars, logVars, lines, sinkVars, report,
                  dbVars >>

\* main.go:80-85: the id of the next entry is new: insert it into the seen
\* set, wait.Add(1)
GetTasksAdd ==
  /\ Running
  /\ mainpc = "getTasks"
  /\ left > 0
  /\ \E id \in upstream.tasks :
       /\ ~Have(seen, id)
       /\ hist' = id
       /\ seen' = SeenInsert(seen, id)
       /\ incs' = [incs EXCEPT ![id] = @ + 1]
       /\ returned' = [returned EXCEPT ![phase] = @ \cup {id}]
       /\ scenario' = (scenario /\ RequestIdOf(id) = n)
  /\ WgAdd(1)
  /\ mainpc' = "go"
  /\ UNCHANGED << optVars, lifeVars, txnVars, n, phase, left >>
  /\ UNCHANGED << fetchVars, dispatched, decs, logVars, lines, sinkVars,
                  report, dbVars >>

\* main.go:87  go getTask(url, hist.TaskId, ...)
GetTasksGo ==
  /\ Running
  /\ mainpc = "go"
  /\ fpc' = [fpc EXCEPT ![hist] = "loop"]
  /\ calls' = [calls EXCEPT ![hist] = 0]
  /\ errs' = [errs EXCEPT ![hist] = 0]
  /\ dispatched' = [dispatched EXCEPT ![hist] = @ + 1]
  /\ hist' = NoId
  /\ left' = left - 1
  /\ mainpc' = "getTasks"
  /\ UNCHANGED << optVars, lifeVars, txnVars, n, phase, seen, returned, scenario, waitVars >>
  /\ UNCHANGED << lastUpdate, taskUpdates, desc, incs, decs, logVars, lines,
                  sinkVars, report, dbVars >>

\* main.go:89 and 63-72: getTasks returns; main goes on to the active listing
\* of the request, to the next request, or to wait.Wait()
GetTasksReturn ==
  /\ Running
  /\ mainpc = "getTasks"
  /\ left = 0
  /\ IF phase = "inactive"
       THEN /\ phase' = "active"
            /\ n' = n
            /\ mainpc' = "list"
       ELSE IF n < upstream.reqs
         THEN /\ phase' = FirstPhase
              /\ n' = n + 1
              /\ mainpc' = "list"
         ELSE /\ phase' = phase
              /\ n' = n
              /\ mainpc' = "wait"
  /\ UNCHANGED << optVars, lifeVars, txnVars, left, hist, seen, returned, scenario, waitVars >>
  /\ UNCHANGED << fetchVars, countVars, logVars, lines, sinkVars, report,
                  dbVars >>

\* main.go:74  wait.Wait() returns when the counter is zero
MainWait ==
  /\ Running
  /\ mainpc = "wait"
  /\ counter = 0
  /\ mainpc' = "flush"
  /\ UNCHANGED << optVars, lifeVars, txnVars, n, phase, left, hist, seen, returned, scenario,
                  waitVars >>
  /\ UNCHANGED << fetchVars, countVars, logVars, lines, sinkVars, report,
                  dbVars >>

\* main.go:75  writer.Flush()
MainFlush ==
  /\ Running
  /\ mainpc = "flush"
  /\ report' = written
  /\ mainpc' = "close"
  /\ UNCHANGED << optVars, lifeVars, txnVars, n, phase, left, hist, seen, returned, scenario,
                  waitVars >>
  /\ UNCHANGED << fetchVars, countVars, logVars, lines, sinkVars, dbVars >>

\* main.go:57 and 76: the deferred database.close() runs and main returns,
\* which ends the process and every goroutine with it
MainExit ==
  /\ Running
  /\ mainpc = "close"
  /\ mainpc' = "exited"
  /\ UNCHANGED << optVars, lifeVars, txnVars, n, phase, left, hist, seen, returned, scenario,
                  waitVars >>
  /\ UNCHANGED << fetchVars, countVars, logVars, lines, sinkVars, report,
                  dbVars >>

\* --------------------------------------------------------------- getTask
\* main.go:110-112: after every call, a non-empty TaskUpdates resets
\* lastUpdate to its first element; an empty one leaves lastUpdate as it was
AfterCall(last, c, list) ==
  IF Len(list) > 0 THEN UpdatePtr(c, list, 1) ELSE last

\* the comparison with >= in place of >
NewerOrEqual(upd, last) == upd.Timestamp >= last.Timestamp

\* main.go:126  upd.Timestamp > lastUpdate.Timestamp
Newer(upd, last) == upd.Timestamp > last.Timestamp

\* main.go:125-129: the scan of taskHistory.TaskUpdates from element j on
RECURSIVE LatestFrom(_, _, _, _)
LatestFrom(last, c, list, j) ==
  IF j > Len(list)
    THEN last
    ELSE LatestFrom(IF Newer(list[j], last) THEN UpdatePtr(c, list, j) ELSE last,
                    c, list, j + 1)

\* lastUpdate after the call number c returned list without error
Latest(last, c, list) == LatestFrom(AfterCall(last, c, list), c, list, 1)

\* the status update a taskDesc is given
StatusField(last) == IF last = NilUpdate THEN NoStatus ELSE last.TaskState

\* main.go:161-168: the request of reqList whose Id is id.RequestId, or nil
Correlate(t) ==
  IF RequestIdOf(t) \in 1..upstream.reqs THEN RequestIdOf(t) ELSE NoReq

\* the loop bound off by one
LoopExitOffByOne(c) == IF c <= Retries THEN "loop" ELSE "failed"

\* err not looked at after the loop (as in taskLine, main.go:370-381, where
\* err is shadowed inside the loop)
LoopExitIgnoresErr(c) == IF c < Retries THEN "loop" ELSE "send"

\* main.go:106 and 119: the loop goes on after the failed call number c, or
\* it has run out and err != nil
LoopExit(c) == IF c < Retries THEN "loop" ELSE "failed"

\* one entry for every attempt
LogPrintPerAttempt(k) == k + Retries

\* main.go:120  log.Print(err): one more entry
LogPrint(k) == k + 1

\* the locals of a getTask that has returned
Returned(t) ==
  /\ calls' = [calls EXCEPT ![t] = 0]
  /\ errs' = [errs EXCEPT ![t] = 0]
  /\ lastUpdate' = [lastUpdate EXCEPT ![t] = NilUpdate]
  /\ taskUpdates' = [taskUpdates EXCEPT ![t] = << >>]

\* main.go:106-118: one more call of GetHistoryForTask returns an error. The
\* response of a failed call is the client's (not nil, or line 110 would
\* panic on every error); its TaskUpdates may hold anything, and line 111
\* reads its first element only.
GetHistoryErr(t) ==
  /\ Running
  /\ fpc[t] = "loop"
  /\ \E upd \in FailedUpdateLists(upstream) :
       lastUpdate' = [lastUpdate EXCEPT ![t] = AfterCall(@, calls[t] + 1, upd)]
  /\ calls' = [calls EXCEPT ![t] = @ + 1]
  /\ errs' = [errs EXCEPT ![t] = @ + 1]
  /\ fpc' = [fpc EXCEPT ![t] = LoopExit(calls[t] + 1)]
  /\ UNCHANGED << optVars, lifeVars, txnVars, mainVars, waitVars >>
  /\ UNCHANGED << taskUpdates, desc, countVars, logVars, lines, sinkVars,
                  report, dbVars >>

\* main.go:119-123: every attempt failed: log the last error, wait.Add(-1),
\* return
GetTaskHardFail(t) ==
  /\ Running
  /\ fpc[t] = "failed"
  /\ errLog' = [errLog EXCEPT ![t] = LogPrint(@)]
  /\ FetchDone(t)
  /\ fpc' = [fpc EXCEPT ![t] = "hard"]
  /\ Returned(t)
  /\ UNCHANGED << optVars, lifeVars, txnVars, mainVars >>
  /\ UNCHANGED << desc, dispatched, incs, softLog, lines, sinkVars, report,
                  dbVars >>

\* taskHistory.Task of a call that returned without error: which of the
\* nested pointers is nil
TaskShapes ==
  { "noTask", "noMesos", "noContainer", "noCommand", "noEnvironment",
    "noDocker", "full" }

\* main.go:133-159: what getTask does with a task of that shape. The
\* arguments of debug are evaluated, so that a nil Task (line 133) and a nil
\* Container (line 141) are nil dereferences
Outcome(shape) ==
  CASE shape = "noTask" -> "panic"
    [] shape = "noMesos" -> "soft"
    [] shape = "noContainer" -> "panic"
    [] shape = "noCommand" -> "soft"
    [] shape = "noEnvironment" -> "soft"
    [] OTHER -> "send"

\* main.go:133 with a nil Task, main.go:141 with a nil Container
GetTaskPanic(t) ==
  /\ Running
  /\ fpc[t] = "loop"
  /\ \E shape \in TaskShapes : Outcome(shape) = "panic"
  /\ fpc' = [fpc EXCEPT ![t] = "panic"]
  /\ calls' = [calls EXCEPT ![t] = @ + 1]
  /\ panic' = "getTask"
  /\ UNCHANGED << optVars, lifeVars, txnVars, mainVars, counter >>
  /\ UNCHANGED << errs, lastUpdate, taskUpdates, desc, countVars, logVars,
                  lines, sinkVars, report, dbVars >>

\* main.go:134-138, 144-148, 150-154: no mesos task info, no command or no
\* environment: log, wait.Add(-1), return
GetTaskSoftFail(t) ==
  /\ Running
  /\ fpc[t] = "loop"
  /\ \E shape \in TaskShapes : Outcome(shape) = "soft"
  /\ fpc' = [fpc EXCEPT ![t] = "soft"]
  /\ softLog' = [softLog EXCEPT ![t] = @ + 1]
  /\ FetchDone(t)
  /\ Returned(t)
  /\ UNCHANGED << optVars, lifeVars, txnVars, mainVars >>
  /\ UNCHANGED << desc, dispatched, incs, errLog, lines, sinkVars, report,
                  dbVars >>

\* main.go:114-117, 125-170: the call returns without error and the task is
\* complete: the loop breaks, lastUpdate is resolved, the taskDesc is built
GetTaskResolve(t) ==
  /\ Running
  /\ fpc[t] = "loop"
  /\ calls' = [calls EXCEPT ![t] = @ + 1]
  /\ \E upd \in UpdateLists(upstream) :
       /\ taskUpdates' = [taskUpdates EXCEPT ![t] = upd]
       /\ lastUpdate' = [lastUpdate EXCEPT ![t] = Latest(@, calls[t] + 1, upd)]
  /\ \E shape \in TaskShapes :
       /\ Outcome(shape) = "send"
       /\ desc' = [desc EXCEPT ![t] =
                     [update |-> StatusField(lastUpdate'[t]),
                      req |-> Correlate(t), docker |-> (shape = "full")]]
  /\ fpc' = [fpc EXCEPT ![t] = "send"]
  /\ UNCHANGED << optVars, lifeVars, txnVars, mainVars, waitVars >>
  /\ UNCHANGED << errs, countVars, logVars, lines, sinkVars, report, dbVars >>

\* main.go:170  lines <- &taskDesc{...}: blocks while the channel is full;
\* getTask returns
GetTaskSend(t) ==
  /\ Running
  /\ fpc[t] = "send"
  /\ Len(lines) < LinesCap
  /\ lines' = Append(lines, t)
  /\ fpc' = [fpc EXCEPT ![t] = "sent"]
  /\ Returned(t)
  /\ UNCHANGED << optVars, lifeVars, txnVars, mainVars, waitVars >>
  /\ UNCHANGED << desc, countVars, logVars, sinkVars, report, dbVars >>

\* --------------------------------------------------------------- tabRows
\* main.go:206-208: the arguments of debug dereference the status update
PrintableDerefsNil(d) == d.update = NoStatus

\* main.go:209-212
printable(d) ==
  \/ printInactiveTasks
  \/ d.update = NoStatus
  \/ d.update = "TASK_RUNNING"

\* main.go:192-193 (206-208): a line without status update is received and
\* printable panics
TabPanic ==
  /\ Running
  /\ tpc = "recv"
  /\ lines # << >>
  /\ PrintableDerefsNil(desc[Head(lines)])
  /\ line' = Head(lines)
  /\ lines' = Tail(lines)
  /\ received' = received \cup {Head(lines)}
  /\ panic' = "printable"
  /\ UNCHANGED << optVars, lifeVars, txnVars, mainVars, counter >>
  /\ UNCHANGED << fetchVars, countVars, logVars, tpc, written, report,
                  dbVars >>

\* main.go:192-195: a line is received and, when printable, its row written
TabRecv ==
  /\ Running
  /\ tpc = "recv"
  /\ lines # << >>
  /\ ~PrintableDerefsNil(desc[Head(lines)])
  /\ line' = Head(lines)
  /\ lines' = Tail(lines)
  /\ received' = received \cup {Head(lines)}
  /\ written' = IF printable(desc[Head(lines)])
                  THEN Append(written, Head(lines))
                  ELSE written
  /\ tpc' = "go"
  /\ UNCHANGED << optVars, lifeVars, txnVars, mainVars, waitVars >>
  /\ UNCHANGED << fetchVars, countVars, logVars, report, dbVars >>

\* main.go:196-200  go func(line *taskDesc) {...}(line)
TabGo ==
  /\ Running
  /\ tpc = "go"
  /\ wpc' = [wpc EXCEPT ![line] = "spawned"]
  /\ tpc' = "done"
  /\ UNCHANGED << optVars, lifeVars, txnVars, mainVars, waitVars >>
  /\ UNCHANGED << fetchVars, countVars, logVars, lines, line, received,
                  written, report, mutex, store >>

\* main.go:201  wait.Done() on behalf of the fetch that sent the line
TabDone ==
  /\ Running
  /\ tpc = "done"
  /\ FetchDone(line)
  /\ tpc' = "recv"
  /\ line' = NoId
  /\ UNCHANGED << optVars, lifeVars, txnVars, mainVars >>
  /\ UNCHANGED << fetchVars, dispatched, incs, logVars, lines, received,
                  written, report, dbVars >>

\* ----------------------------------------------------------- the store
\* the next autoincrement key of a table
NextId(s, table) == s.seq[table] + 1

Min(S) == CHOOSE x \in S : \A y \in S : x <= y

\* opts.URL
Url == "url"

\* the delete without the cascade
DeleteReqNoCascade(s, id) == [s EXCEPT !.req = {r \in @ : r.req_id # id}]

\* on delete cascade (schema, part_000:27-52): deleting req row id deletes
\* its task rows and their env and docker_image rows
DeleteReq(s, id) ==
  LET gone == {k.task_id : k \in {k \in s.task : k.req_id = id}} IN
    [s EXCEPT !.req = {r \in @ : r.req_id # id},
              !.task = {k \in @ : k.req_id # id},
              !.env = {e \in @ : e.task_id \notin gone},
              !.docker_image = {d \in @ : d.task_id \notin gone}]

\* part_000:142-169: the id of the singularity row of the url, inserting the
\* row when there is none. The result is the store and the id.
addSing(s, url) ==
  LET found == {r.singularity_id : r \in {r \in s.singularity : r.url = url}} IN
    IF found # {}
      THEN [store |-> s, id |-> Min(found)]
      ELSE [store |->
              [s EXCEPT !.singularity =
                          @ \cup {[singularity_id |-> NextId(s, "singularity"),
                                   url |-> url]},
                        !.seq.singularity = @ + 1],
            id |-> NextId(s, "singularity")]

\* a window of no length
NeverFresh(capturedAt) == FALSE

\* a window that includes its far end
FreshInclusive(capturedAt) == Now - capturedAt <= FreshWindow

\* part_000:194  now.Sub(captureTime) < 1 * time.Second
Fresh(capturedAt) == Now - capturedAt < FreshWindow

\* part_000:171-211: the id of the req row of the request: a fresh row is
\* reused, a stale one is deleted and a new row is inserted
addReq(s, singID, reqID, state) ==
  LET found == {r \in s.req : r.request_ident = reqID}
      row == CHOOSE r \in found : r.req_id = Min({q.req_id : q \in found})
      cleared == IF found # {} THEN DeleteReq(s, row.req_id) ELSE s
  IN
    IF found # {} /\ Fresh(row.captured_at)
      THEN [store |-> s, id |-> row.req_id]
      ELSE [store |->
              [cleared EXCEPT !.req =
                          @ \cup {[req_id |-> NextId(s, "req"),
                                   singularity_id |-> singID,
                                   request_ident |-> reqID,
                                   state |-> state,
                                   captured_at |-> Now]},
                        !.seq.req = @ + 1],
            id |-> NextId(s, "req")]

\* part_000:109-112
StatusOf(d) == IF d.update # NoStatus THEN d.update ELSE "UNKNOWN"

\* part_000:127-132: one env row per variable of the task's environment
InsertEnv(s, taskID) ==
  [s EXCEPT !.env =
              @ \cup {[env_id |-> s.seq.env + v, task_id |-> taskID, name |-> v]
                        : v \in Variables},
            !.seq.env = @ + NumVars]

\* part_000:134-139: the docker_image row of a task with docker info
InsertDocker(s, taskID, d) ==
  IF d.docker
    THEN [s EXCEPT !.docker_image =
                     @ \cup {[docker_image_id |-> NextId(s, "docker_image"),
                              task_id |-> taskID]},
                   !.seq.docker_image = @ + 1]
    ELSE s

\* part_000:83-140: the transaction of addTask for the taskDesc d of task t
addTask(s, t, d) ==
  LET sing == addSing(s, Url)
      req == IF d.req = NoReq
               THEN addReq(sing.store, sing.id, RequestIdOf(t), "UNKNOWN")
               ELSE addReq(sing.store, sing.id, d.req, "ACTIVE")
      taskID == NextId(req.store, "task")
      withTask ==
        [req.store EXCEPT !.task =
                            @ \cup {[task_id |-> taskID, req_id |-> req.id,
                                     deploy_ident |-> DeployIdOf(t),
                                     status |-> StatusOf(d)]},
                          !.seq.task = @ + 1]
  IN InsertDocker(InsertEnv(withTask, taskID), taskID, d)

\* main.go:197  wait.Add(1) inside the spawned goroutine
FuncAdd(t) ==
  /\ Running
  /\ wpc[t] = "spawned"
  /\ WgAdd(1)
  /\ wpc' = [wpc EXCEPT ![t] = "added"]
  /\ UNCHANGED << optVars, lifeVars, txnVars, mainVars >>
  /\ UNCHANGED << fetchVars, countVars, logVars, lines, sinkVars, report,
                  mutex, store >>

\* a Lock that never waits
LockNotTaken(m) == TRUE

\* part_000:87  db.Lock() returns when no goroutine holds the Mutex
Unlocked(m) == m = 0

\* part_000:87  db.Lock()
AddTaskLock(t) ==
  /\ Running
  /\ wpc[t] = "added"
  /\ Unlocked(mutex)
  /\ mutex' = t
  /\ wpc' = [wpc EXCEPT ![t] = "locked"]
  /\ UNCHANGED << optVars, lifeVars, txnVars, mainVars, waitVars >>
  /\ UNCHANGED << fetchVars, countVars, logVars, lines, sinkVars, report,
                  store >>

\* part_000:90-140 and 88: the writes of addTask, then the deferred Unlock
AddTaskWrite(t) ==
  /\ Running
  /\ wpc[t] = "locked"
  /\ store' = addTask(store, t, desc[t])
  /\ mutex' = 0
  /\ wpc' = [wpc EXCEPT ![t] = "returned"]
  /\ UNCHANGED << optVars, lifeVars, txnVars, mainVars, waitVars >>
  /\ UNCHANGED << fetchVars, countVars, logVars, lines, sinkVars, report >>

\* main.go:199  wait.Done() of the spawned goroutine
FuncDone(t) ==
  /\ Running
  /\ wpc[t] = "returned"
  /\ WgAdd(-1)
  /\ wpc' = [wpc EXCEPT ![t] = "finished"]
  /\ UNCHANGED << optVars, lifeVars, txnVars, mainVars >>
  /\ UNCHANGED << fetchVars, countVars, logVars, lines, sinkVars, report,
                  mutex, store >>

\* -------------------------------------------------- the file across runs
\* The rows of earlier runs when a new process starts a second or more
\* later: their captured_at is outside the window of part_000:194.
Aged(s) ==
  [s EXCEPT !.req = {[r EXCEPT !.captured_at = Now - FreshWindow] : r \in @}]

\* A new process of a build with the statement list sch starts on the file
\* the earlier ones left (part_000:55, main.go:53-57): now is taken, the
\* WaitGroup and the Mutex are new.
NewProcess(sch, aged) ==
  /\ gpc \in {"ready", "dead"}
  /\ runs < MaxRuns
  /\ runs' = runs + 1
  /\ compiled' = sch
  /\ store' = IF aged /\ variant = "fingerprinted" THEN Aged(store) ELSE store
  /\ atOpen' = store'
  /\ groomed' = "none"
  /\ gpc' = "open"
  /\ panic' = "none"
  /\ counter' = 0
  /\ mutex' = 0
  /\ wpc' = [t \in TaskIds |-> "none"]
  /\ desc' = [t \in TaskIds |-> NoDesc]
  /\ txn' = [t \in TaskIds |-> NoTxn]
  /\ faults' = [t \in TaskIds |-> 0]
  /\ dbLog' = [t \in TaskIds |-> 0]
  /\ UNCHANGED << optVars, mainVars, variant, disk >>
  /\ UNCHANGED << fpc, calls, errs, lastUpdate, taskUpdates, countVars,
                  logVars, lines, sinkVars, report >>

\* the same build is run again
Restart == \E aged \in BOOLEAN : NewProcess(compiled, aged)

\* a build with another statement list is run
Upgrade ==
  \E sch \in Schemas \ {compiled} : \E aged \in BOOLEAN : NewProcess(sch, aged)

\* what newDB leaves alone
NewDBFrame ==
  /\ UNCHANGED << optVars, mainVars, counter, variant, compiled, runs, atOpen >>
  /\ UNCHANGED << fetchVars, countVars, logVars, lines, sinkVars, report,
                  wpc, mutex, txnVars >>

\* part_000:63-68  openDB of the fingerprinted store: the file is opened as
\* it is
OpenDB ==
  /\ gpc = "open"
  /\ variant = "fingerprinted"
  /\ gpc' = "groom"
  /\ UNCHANGED << panic, store, disk, groomed >>
  /\ NewDBFrame

\* the test taken the other way round
NeverMatches(stored, fp) == FALSE

\* part_000:224-225: the query finds a stored fingerprint (err == nil) and
\* it is the one of the compiled schema
Matches(stored, fp) == stored = {fp}

\* part_000:225, 244: the fingerprint matches, groom returns nil
GroomMatch ==
  /\ gpc = "groom"
  /\ Matches(disk.fingerprint, fingerPrintSchema(compiled))
  /\ gpc' = "ready"
  /\ groomed' = "match"
  /\ UNCHANGED << panic, store, disk >>
  /\ NewDBFrame

\* part_000:225-226: no fingerprint is stored, or another one
GroomMismatch ==
  /\ gpc = "groom"
  /\ ~Matches(disk.fingerprint, fingerPrintSchema(compiled))
  /\ gpc' = "clobber"
  /\ UNCHANGED << panic, store, disk, groomed >>
  /\ NewDBFrame

\* part_000:259-273: every table, index and trigger is deleted from
\* sqlite_master, the file is vacuumed
clobber ==
  /\ gpc = "clobber"
  /\ disk' = NoFile
  /\ store' = EmptyStore
  /\ gpc' = "create"
  /\ UNCHANGED << panic, groomed >>
  /\ NewDBFrame

\* part_000:231-235: the next statement of the compiled schema is executed
GroomCreate ==
  /\ gpc = "create"
  /\ Len(disk.tables) < Len(compiled)
  /\ disk' = [disk EXCEPT !.tables = Append(@, compiled[Len(@) + 1])]
  /\ UNCHANGED << panic, store, gpc, groomed >>
  /\ NewDBFrame

\* part_000:236-244: the fingerprint is stored, groom returns nil
GroomStamp ==
  /\ gpc = "create"
  /\ Len(disk.tables) = Len(compiled)
  /\ disk' = [disk EXCEPT !.fingerprint = {fingerPrintSchema(compiled)}]
  /\ gpc' = "ready"
  /\ groomed' = "rebuilt"
  /\ UNCHANGED << panic, store >>
  /\ NewDBFrame

\* part_000:69-72, 227-241: a statement of groom returns an error and newDB
\* panics, or the process is stopped there
GroomFails ==
  /\ gpc \in {"clobber", "create"}
  /\ gpc' = "dead"
  /\ panic' = "newDB"
  /\ UNCHANGED << store, disk, groomed >>
  /\ NewDBFrame

\* db.go:106-113  openDB of the simple store: os.Remove(dbFile), whose error
\* is dropped, then the file is opened
OpenDBSimple ==
  /\ gpc = "open"
  /\ variant = "simple"
  /\ \E removed \in BOOLEAN :
       /\ disk' = IF removed THEN NoFile ELSE disk
       /\ store' = IF removed THEN EmptyStore ELSE store
  /\ gpc' = "schema"
  /\ UNCHANGED << panic, groomed >>
  /\ NewDBFrame

\* create table if not exists
CreateIfNotExists(tables) == TRUE

\* db.go:117  create table succeeds on a file that has no tables yet
CanCreate(tables) == tables = << >>

\* db.go:115-121  createSchema on a file without tables
createSchema ==
  /\ gpc = "schema"
  /\ CanCreate(disk.tables)
  /\ disk' = [tables |-> compiled, fingerprint |-> {}]
  /\ gpc' = "ready"
  /\ groomed' = "rebuilt"
  /\ UNCHANGED << panic, store >>
  /\ NewDBFrame

\* db.go:117-119: the file was not removed and has its tables: create table
\* returns an error, createSchema panics
CreateSchemaPanic ==
  /\ gpc = "schema"
  /\ ~CanCreate(disk.tables)
  /\ gpc' = "dead"
  /\ panic' = "createSchema"
  /\ UNCHANGED << store, disk, groomed >>
  /\ NewDBFrame

\* the taskDesc that getTask may send for the task t (main.go:170), for
\* which printable returns
Descs(t) ==
  [update : TaskStates, req : {Correlate(t)}, docker : BOOLEAN]

\* db.go:55-104  addTask of the simple store: a req row, a task row and the
\* env rows are inserted
addTaskSimple(s, t, d) ==
  LET reqID == NextId(s, "req")
      taskID == NextId(s, "task")
      withTask ==
        [s EXCEPT !.req = @ \cup {[req_id |-> reqID,
                                   request_ident |-> RequestIdOf(t),
                                   state |-> IF d.req = NoReq THEN "UNKNOWN"
                                                              ELSE "ACTIVE"]},
                  !.seq.req = @ + 1,
                  !.task = @ \cup {[task_id |-> taskID, req_id |-> reqID,
                                    deploy_ident |-> DeployIdOf(t),
                                    status |-> StatusOf(d)]},
                  !.seq.task = @ + 1]
  IN InsertEnv(withTask, taskID)

\* main.go:192-200 with part_000:83-140 or db.go:55-104: a record of the
\* run is received by tabRows and written by addTask, alone in the store
CollectRecord(t) ==
  /\ gpc = "ready"
  /\ panic = "none"
  /\ wpc[t] = "none"
  /\ t \in upstream.tasks
  /\ \E d \in Descs(t) :
       /\ desc' = [desc EXCEPT ![t] = d]
       /\ store' = IF variant = "simple" THEN addTaskSimple(store, t, d)
                                         ELSE addTask(store, t, d)
  /\ wpc' = [wpc EXCEPT ![t] = "finished"]
  /\ UNCHANGED << optVars, mainVars, waitVars, lifeVars, txnVars, mutex >>
  /\ UNCHANGED << fpc, calls, errs, lastUpdate, taskUpdates, countVars,
                  logVars, lines, sinkVars, report >>

\* the first run on a machine without the file
InitGroom ==
  /\ MainStart(OneTask)
  /\ store = EmptyStore
  /\ variant \in {"fingerprinted", "simple"}
  /\ compiled \in Schemas
  /\ disk = NoFile
  /\ gpc = "open"
  /\ runs = 1
  /\ atOpen = EmptyStore
  /\ groomed = "none"

NextGroom ==
  \/ Restart
  \/ Upgrade
  \/ OpenDB
  \/ GroomMatch
  \/ GroomMismatch
  \/ clobber
  \/ GroomCreate
  \/ GroomStamp
  \/ GroomFails
  \/ OpenDBSimple
  \/ createSchema
  \/ CreateSchemaPanic
  \/ \E t \in TaskIds : CollectRecord(t)

SpecGroom == InitGroom /\ [][NextGroom]_vars

\* ------------------------------------------- addTask statement by statement
\* what a statement of addTask leaves alone
AddTaskFrame ==
  /\ UNCHANGED << optVars, mainVars, counter, lifeVars, mutex >>
  /\ UNCHANGED << fetchVars, countVars, logVars, lines, sinkVars, report >>

\* main.go:192-198: tabRows has received the line of the task t of this run
\* and spawned the goroutine that writes it, which calls addTask
TabRowsSpawn(t) ==
  /\ Running
  /\ gpc = "ready"
  /\ wpc[t] = "none"
  /\ t \in upstream.tasks
  /\ \E d \in Descs(t) : desc' = [desc EXCEPT ![t] = d]
  /\ wpc' = [wpc EXCEPT ![t] = "added"]
  /\ UNCHANGED << optVars, mainVars, waitVars, lifeVars, txnVars, mutex, store >>
  /\ UNCHANGED << fpc, calls, errs, lastUpdate, taskUpdates, countVars,
                  logVars, lines, sinkVars, report >>

\* RequestId and state that addTask passes to addReq (part_000:92-102)
ReqArgs(t, d) ==
  IF d.req = NoReq THEN [ident |-> RequestIdOf(t), state |-> "UNKNOWN"]
                   ELSE [ident |-> d.req, state |-> "ACTIVE"]

\* part_000:172-186: the rows the select of addReq returns
ReqRows(s, reqID) == {r \in s.req : r.request_ident = reqID}

\* part_000:193-196: addReq returns the id of the row it found
Reuses(s, reqID) ==
  /\ ReqRows(s, reqID) # {}
  /\ \E r \in ReqRows(s, reqID) :
       /\ r.req_id = Min({q.req_id : q \in ReqRows(s, reqID)})
       /\ Fresh(r.captured_at)

\* part_000:90  sid, err := db.addSing(desc.url). When the insert of line
\* 163 returns an error (ok is FALSE), addSing returns 0 and the error, and
\* addTask goes on: err is overwritten in line 93 or 95.
StepSing(t, ok) ==
  /\ Running
  /\ wpc[t] = "locked"
  /\ LET r == addSing(store, Url) IN
       IF ok
         THEN /\ store' = r.store
              /\ txn' = [txn EXCEPT ![t] = [@ EXCEPT !.sid = r.id, !.start = store]]
              /\ UNCHANGED << faults, dbLog >>
         ELSE /\ r.store # store
              /\ txn' = [txn EXCEPT ![t] = [@ EXCEPT !.sid = 0, !.start = store]]
              /\ faults' = [faults EXCEPT ![t] = @ + 1]
              /\ UNCHANGED << store, dbLog >>
  /\ wpc' = [wpc EXCEPT ![t] = "sing"]
  /\ UNCHANGED panic
  /\ AddTaskFrame

\* foreign keys are not enforced: any singularity_id is accepted
ForeignKeysOff(s, singID) == TRUE

\* part_000:29 with line 68: singularity_id references singularity, and
\* foreign keys are on: the insert into req needs the singularity row
SingExists(s, singID) == \E r \in s.singularity : r.singularity_id = singID

\* part_000:92-107  id, err = db.addReq(...). The insert of line 204 returns
\* an error when ok is FALSE, and also when sid is 0, which is no
\* singularity row (foreign keys are on); addTask then makes a debug entry
\* and returns. A stale row has been deleted by then (line 199).
StepReq(t, ok) ==
  /\ Running
  /\ wpc[t] = "sing"
  /\ LET a == ReqArgs(t, desc[t])
         r == addReq(store, txn[t].sid, a.ident, a.state)
         rows == ReqRows(store, a.ident)
         stale == CHOOSE q \in rows : q.req_id = Min({x.req_id : x \in rows})
     IN
       IF Reuses(store, a.ident) \/ (ok /\ SingExists(store, txn[t].sid))
         THEN /\ ok
              /\ store' = r.store
              /\ txn' = [txn EXCEPT ![t].req = r.id]
              /\ wpc' = [wpc EXCEPT ![t] = "req"]
              /\ UNCHANGED << faults, dbLog >>
         ELSE /\ store' = IF rows # {} THEN DeleteReq(store, stale.req_id) ELSE store
              /\ faults' = [faults EXCEPT ![t] = @ + 1]
              /\ dbLog' = [dbLog EXCEPT ![t] = @ + 1]
              /\ wpc' = [wpc EXCEPT ![t] = "docker"]
              /\ UNCHANGED txn
  /\ UNCHANGED panic
  /\ AddTaskFrame

\* part_000:109-125: the task row is inserted; on an error addTask makes a
\* debug entry and returns
StepTask(t, ok) ==
  /\ Running
  /\ wpc[t] = "req"
  /\ IF ok
       THEN /\ store' = [store EXCEPT !.task =
                           @ \cup {[task_id |-> NextId(store, "task"),
                                    req_id |-> txn[t].req,
                                    deploy_ident |-> DeployIdOf(t),
                                    status |-> StatusOf(desc[t])]},
                                       !.seq.task = @ + 1]
            /\ txn' = [txn EXCEPT ![t].task = NextId(store, "task")]
            /\ wpc' = [wpc EXCEPT ![t] = "task"]
            /\ UNCHANGED << faults, dbLog >>
       ELSE /\ faults' = [faults EXCEPT ![t] = @ + 1]
            /\ dbLog' = [dbLog EXCEPT ![t] = @ + 1]
            /\ wpc' = [wpc EXCEPT ![t] = "docker"]
            /\ UNCHANGED << store, txn >>
  /\ UNCHANGED panic
  /\ AddTaskFrame

\* part_000:127-132: the env rows are inserted. The result of Exec is
\* dropped and err is the nil of line 121: an error is not seen.
StepEnv(t, ok) ==
  /\ Running
  /\ wpc[t] = "task"
  /\ IF ok
       THEN /\ store' = InsertEnv(store, txn[t].task)
            /\ UNCHANGED faults
       ELSE /\ faults' = [faults EXCEPT ![t] = @ + 1]
            /\ UNCHANGED store
  /\ wpc' = [wpc EXCEPT ![t] = "env"]
  /\ UNCHANGED << panic, txn, dbLog >>
  /\ AddTaskFrame

\* part_000:134-139: the docker_image row is inserted when there is docker
\* info; an error is not seen either
StepDocker(t, ok) ==
  /\ Running
  /\ wpc[t] = "env"
  /\ IF ok
       THEN /\ store' = InsertDocker(store, txn[t].task, desc[t])
            /\ UNCHANGED faults
       ELSE /\ desc[t].docker
            /\ faults' = [faults EXCEPT ![t] = @ + 1]
            /\ UNCHANGED store
  /\ wpc' = [wpc EXCEPT ![t] = "docker"]
  /\ UNCHANGED << panic, txn, dbLog >>
  /\ AddTaskFrame

\* part_000:88  the deferred db.Unlock(): addTask returns
AddTaskUnlock(t) ==
  /\ Running
  /\ wpc[t] = "docker"
  /\ mutex' = 0
  /\ wpc' = [wpc EXCEPT ![t] = "returned"]
  /\ UNCHANGED << optVars, mainVars, waitVars, lifeVars, txnVars, store >>
  /\ UNCHANGED << fetchVars, countVars, logVars, lines, sinkVars, report >>

\* part_000:144-148, 172-176: the select of addSing or of addReq returns an
\* error: rows is nil, and the deferred rows.Close() dereferences it
QueryFails(t) ==
  /\ Running
  /\ wpc[t] \in {"locked", "sing"}
  /\ faults' = [faults EXCEPT ![t] = @ + 1]
  /\ panic' = "rows.Close"
  /\ UNCHANGED << txn, dbLog, wpc, store >>
  /\ AddTaskFrame

\* the first run of the fingerprinted build, all tasks of one request
InitStore == Start(OneRequest)

NextStore ==
  \/ Restart
  \/ OpenDB
  \/ GroomMatch
  \/ \E t \in TaskIds : TabRowsSpawn(t)
  \/ \E t \in TaskIds : AddTaskLock(t)
  \/ \E t \in TaskIds : StepSing(t, TRUE)
  \/ \E t \in TaskIds : StepReq(t, TRUE)
  \/ \E t \in TaskIds : StepTask(t, TRUE)
  \/ \E t \in TaskIds : StepEnv(t, TRUE)
  \/ \E t \in TaskIds : StepDocker(t, TRUE)
  \/ \E t \in TaskIds : AddTaskUnlock(t)

SpecStore == InitStore /\ [][NextStore]_vars

\* the same, with statements that return an error
NextFaults ==
  \/ Restart
  \/ OpenDB
  \/ GroomMatch
  \/ \E t \in TaskIds : TabRowsSpawn(t)
  \/ \E t \in TaskIds : AddTaskLock(t)
  \/ \E t \in TaskIds : \E ok \in BOOLEAN : StepSing(t, ok)
  \/ \E t \in TaskIds : \E ok \in BOOLEAN : StepReq(t, ok)
  \/ \E t \in TaskIds : \E ok \in BOOLEAN : StepTask(t, ok)
  \/ \E t \in TaskIds : \E ok \in BOOLEAN : StepEnv(t, ok)
  \/ \E t \in TaskIds : \E ok \in BOOLEAN : StepDocker(t, ok)
  \/ \E t \in TaskIds : QueryFails(t)
  \/ \E t \in TaskIds : AddTaskUnlock(t)

SpecFaults == InitStore /\ [][NextFaults]_vars

\* ------------------------------------------------------ the specification
Next ==
  \/ ListTasks
  \/ GetTasksNilId
  \/ GetTasksSkip
  \/ GetTasksAdd
  \/ GetTasksGo
  \/ GetTasksReturn
  \/ MainWait
  \/ MainFlush
  \/ MainExit
  \/ \E t \in TaskIds : GetHistoryErr(t)
  \/ \E t \in TaskIds : GetTaskHardFail(t)
  \/ \E t \in TaskIds : GetTaskPanic(t)
  \/ \E t \in TaskIds : GetTaskSoftFail(t)
  \/ \E t \in TaskIds : GetTaskResolve(t)
  \/ \E t \in TaskIds : GetTaskSend(t)
  \/ TabPanic
  \/ TabRecv
  \/ TabGo
  \/ TabDone
  \/ \E t \in TaskIds : FuncAdd(t)
  \/ \E t \in TaskIds : AddTaskLock(t)
  \/ \E t \in TaskIds : AddTaskWrite(t)
  \/ \E t \in TaskIds : FuncDone(t)

Spec == Init /\ [][Next]_vars

SpecOneTask == InitOneTask /\ [][Next]_vars

\* ------------------------------------------- the earlier variant of main
\* main.go:346  lines := make(chan []string, 10)
EarlierLinesCap == 10

\* what the earlier variant does not have: options of the listing, the
\* store, the status updates
EarlierFrame ==
  UNCHANGED << optVars, lifeVars, txnVars, dbVars, n, phase, returned,
               scenario, lastUpdate, taskUpdates, desc, errLog >>

\* the state of main and of its list
earlierMain == << mainpc, left, hist, seen >>

\* the locals of taskLine
lineVars == << fpc, calls, errs, softLog >>

\* main.go:330-349: GetActiveTasks returns the list of the active tasks, in
\* the order of their ids; tabRows is started
EarlierList ==
  /\ Running
  /\ mainpc = "list"
  /\ \E k \in 0..MaxTasks :
       /\ seen' = 1..k
       /\ left' = k
       /\ mainpc' = IF k = 0 THEN "wait" ELSE "spawn"
  /\ hist' = NoId
  /\ UNCHANGED << waitVars, lineVars, countVars, lines, sinkVars, report >>
  /\ EarlierFrame

\* main.go:351-353  go taskLine(task, ...) for the next task of the list;
\* nothing is added to the WaitGroup here
EarlierSpawn ==
  /\ Running
  /\ mainpc = "spawn"
  /\ left > 0
  /\ LET t == (Cardinality(seen) - left) + 1 IN
       /\ hist' = t
       /\ fpc' = [fpc EXCEPT ![t] = "spawned"]
       /\ dispatched' = [dispatched EXCEPT ![t] = @ + 1]
  /\ left' = left - 1
  /\ mainpc' = IF left = 1 THEN "wait" ELSE "spawn"
  /\ UNCHANGED << seen, waitVars, calls, errs, softLog, incs, decs, lines,
                  sinkVars, report >>
  /\ EarlierFrame

\* main.go:355  wait.Wait() returns when the counter is zero
EarlierWait ==
  /\ Running
  /\ mainpc = "wait"
  /\ counter = 0
  /\ mainpc' = "flush"
  /\ UNCHANGED << left, hist, seen, waitVars, lineVars, countVars, lines,
                  sinkVars, report >>
  /\ EarlierFrame

\* main.go:356-357  writer.Flush(), and main returns, which ends the
\* process and every goroutine with it
EarlierFlush ==
  /\ Running
  /\ mainpc = "flush"
  /\ report' = written
  /\ mainpc' = "exited"
  /\ UNCHANGED << left, hist, seen, waitVars, lineVars, countVars, lines,
                  sinkVars >>
  /\ EarlierFrame

\* main.go:360  wait.Add(1), the first statement of the goroutine
TaskLineAdd(t) ==
  /\ Running
  /\ fpc[t] = "spawned"
  /\ WgAdd(1)
  /\ incs' = [incs EXCEPT ![t] = @ + 1]
  /\ fpc' = [fpc EXCEPT ![t] = "loop"]
  /\ UNCHANGED << earlierMain, calls, errs, softLog, dispatched, decs, lines,
                  sinkVars, report >>
  /\ EarlierFrame

\* main.go:360 while the wait.Done() of line 457 that brings the counter to
\* zero is under way and main is blocked in wait.Wait(): sync.WaitGroup
\* panics in Add ("Add called concurrently with Wait") or in Done
TaskLineAddMisuse(t) ==
  /\ Running
  /\ fpc[t] = "spawned"
  /\ mainpc = "wait"
  /\ tpc = "done"
  /\ counter = 1
  /\ panic' = "WaitGroup misuse"
  /\ UNCHANGED << earlierMain, counter, lineVars, countVars, lines, sinkVars,
                  report >>
  /\ EarlierFrame

\* main.go:361-366: the task of the list has no id: log, wait.Add(-1), return
TaskLineNilId(t) ==
  /\ Running
  /\ fpc[t] = "loop"
  /\ calls[t] = 0
  /\ softLog' = [softLog EXCEPT ![t] = @ + 1]
  /\ FetchDone(t)
  /\ fpc' = [fpc EXCEPT ![t] = "soft"]
  /\ UNCHANGED << earlierMain, calls, errs, dispatched, incs, lines, sinkVars,
                  report >>
  /\ EarlierFrame

\* main.go:370-376: a call of GetHistoryForTask returns an error. Its err
\* is a variable of the loop body, so that the test of line 377 never sees
\* it: after the third failure taskLine goes on with the task of the list.
TaskLineErr(t) ==
  /\ Running
  /\ fpc[t] = "loop"
  /\ calls' = [calls EXCEPT ![t] = @ + 1]
  /\ errs' = [errs EXCEPT ![t] = @ + 1]
  /\ fpc' = [fpc EXCEPT ![t] = IF calls[t] + 1 < Retries THEN "loop" ELSE "listed"]
  /\ UNCHANGED << earlierMain, waitVars, softLog, countVars, lines, sinkVars,
                  report >>
  /\ EarlierFrame

\* main.go:371-374 and 383: the call returns without error and a nil Task,
\* which line 383 dereferences
TaskLinePanic(t) ==
  /\ Running
  /\ fpc[t] = "loop"
  /\ calls' = [calls EXCEPT ![t] = @ + 1]
  /\ fpc' = [fpc EXCEPT ![t] = "panic"]
  /\ panic' = "taskLine"
  /\ UNCHANGED << earlierMain, counter, errs, softLog, countVars, lines,
                  sinkVars, report >>
  /\ EarlierFrame

\* the shapes of a task that taskLine gives up on (main.go:383-401)
EarlierSoft == {"noMesos", "noCommand", "noEnvironment"}

\* main.go:383-401: the task (of the call that returned, or of the list
\* after three errors) has no mesos task info, no command or no
\* environment: log, wait.Add(-1), return
TaskLineSoftFail(t) ==
  /\ Running
  /\ fpc[t] \in {"loop", "listed"}
  /\ \E shape \in TaskShapes : shape \in EarlierSoft
  /\ calls' = [calls EXCEPT ![t] = IF fpc[t] = "loop" THEN @ + 1 ELSE @]
  /\ softLog' = [softLog EXCEPT ![t] = @ + 1]
  /\ FetchDone(t)
  /\ fpc' = [fpc EXCEPT ![t] = "soft"]
  /\ UNCHANGED << earlierMain, errs, dispatched, incs, lines, sinkVars, report >>
  /\ EarlierFrame

\* main.go:371-374, 383-403: the task has its environment: the line is built
TaskLineResolve(t) ==
  /\ Running
  /\ fpc[t] \in {"loop", "listed"}
  /\ \E shape \in TaskShapes : shape \notin EarlierSoft \cup {"noTask"}
  /\ calls' = [calls EXCEPT ![t] = IF fpc[t] = "loop" THEN @ + 1 ELSE @]
  /\ fpc' = [fpc EXCEPT ![t] = "send"]
  /\ UNCHANGED << earlierMain, waitVars, errs, softLog, countVars, lines,
                  sinkVars, report >>
  /\ EarlierFrame

\* main.go:403  lines <- ...: blocks while the channel is full; taskLine
\* returns
TaskLineSend(t) ==
  /\ Running
  /\ fpc[t] = "send"
  /\ Len(lines) < EarlierLinesCap
  /\ lines' = Append(lines, t)
  /\ fpc' = [fpc EXCEPT ![t] = "sent"]
  /\ UNCHANGED << earlierMain, waitVars, calls, errs, softLog, countVars,
                  sinkVars, report >>
  /\ EarlierFrame

\* main.go:454-456: tabRows receives a line and writes its row
EarlierTabRecv ==
  /\ Running
  /\ tpc = "recv"
  /\ lines # << >>
  /\ line' = Head(lines)
  /\ lines' = Tail(lines)
  /\ received' = received \cup {Head(lines)}
  /\ written' = Append(written, Head(lines))
  /\ tpc' = "done"
  /\ UNCHANGED << earlierMain, waitVars, lineVars, countVars, report >>
  /\ EarlierFrame

\* main.go:457  wait.Done() on behalf of the taskLine that sent the line
EarlierTabDone ==
  /\ Running
  /\ tpc = "done"
  /\ FetchDone(line)
  /\ tpc' = "recv"
  /\ line' = NoId
  /\ UNCHANGED << earlierMain, lineVars, dispatched, incs, lines, received,
                  written, report >>
  /\ EarlierFrame

NextEarlier ==
  \/ EarlierList
  \/ EarlierSpawn
  \/ EarlierWait
  \/ EarlierFlush
  \/ \E t \in TaskIds : TaskLineAdd(t)
  \/ \E t \in TaskIds : TaskLineAddMisuse(t)
  \/ \E t \in TaskIds : TaskLineNilId(t)
  \/ \E t \in TaskIds : TaskLineErr(t)
  \/ \E t \in TaskIds : TaskLinePanic(t)
  \/ \E t \in TaskIds : TaskLineSoftFail(t)
  \/ \E t \in TaskIds : TaskLineResolve(t)
  \/ \E t \in TaskIds : TaskLineSend(t)
  \/ EarlierTabRecv
  \/ EarlierTabDone

\* the earlier variant: the same start, main has parsed its options
SpecEarlier == Init /\ [][NextEarlier]_vars

\* ------------------------------------------------------------ the claims
RECURSIVE SumOver(_, _)
SumOver(f, S) ==
  IF S = {} THEN 0
  ELSE LET x == CHOOSE y \in S : TRUE IN f[x] + SumOver(f, S \ {x})

\* tabRows has received the line of t and finished its iteration for it
Consumed(t) == t \in received /\ line # t

\* the fetch of t has reached a terminal outcome
Terminal(t) == fpc[t] \in {"soft", "hard"} \/ Consumed(t)

\* the anonymous goroutines that are between their wait.Add(1) and wait.Done()
Writing == {t \in TaskIds : wpc[t] \in {"added", "locked", "returned"}}

\* main has passed wait.Wait()
PassedBarrier == mainpc \in {"flush", "close", "exited"}

\* the rows of the task table that addTask wrote for t
TaskRowsOf(t) == {k \in store.task : k.deploy_ident = DeployIdOf(t)}

\* C1: no task id is dispatched more than once, whatever the listings
\* return: a dispatched id is in the seen set and was counted once, and
\* every id a listing returned is fetched exactly once (the entry getTasks
\* is at is fetched by its next step).
C1_OneFetchPerTaskId ==
  \A t \in TaskIds :
    /\ dispatched[t] <= 1
    /\ dispatched[t] = 1 => t \in seen
    /\ (t \in returned.inactive \cup returned.active /\ ~(mainpc = "go" /\ hist = t))
         => dispatched[t] = 1

\* C1: an id that an inactive and an active listing both returned has been
\* fetched once when main waits
C1_Witness ==
  /\ mainpc = "wait"
  /\ \E t \in returned.inactive \cap returned.active : dispatched[t] = 1

\* C2 (as claimed): once main has passed the barrier, every dispatched fetch
\* has reached a terminal outcome and the addTask of every line tabRows
\* received has finished.
C2_BarrierCoversCacheWrites ==
  PassedBarrier =>
    \A t \in TaskIds :
      /\ dispatched[t] >= 1 => Terminal(t)
      /\ t \in received => wpc[t] = "finished"

\* C3: a fetch that has started was counted once by getTasks before; its
\* decrement is made exactly when it reaches a terminal outcome (soft
\* failure, hard failure, line consumed by tabRows), and once; the counter is
\* the fetches not yet decremented plus the cache writes under way.
C3_OneIncrementOneDecrement ==
  /\ \A t \in TaskIds :
       /\ fpc[t] # "idle" => incs[t] = 1
       /\ incs[t] <= 1
       /\ decs[t] = IF Terminal(t) THEN 1 ELSE 0
  /\ counter = SumOver(incs, TaskIds) - SumOver(decs, TaskIds) + Cardinality(Writing)

\* C3: one fetch failed hard, another one's line was consumed, both were
\* decremented once
C3_Witness ==
  \E t, u \in TaskIds :
    /\ fpc[t] = "hard" /\ decs[t] = 1
    /\ fpc[u] = "sent" /\ Consumed(u) /\ decs[u] = 1

\* C4 (as claimed): in the stated scenario (every request has one active
\* task of its own, all fetches succeed with printable records), when main
\* has flushed the report has one row per request and the cache has one req
\* row and one task row per request.
C4_RowsAtFlush ==
  ( /\ mainpc \in {"close", "exited"}
    /\ scenario
    /\ \A t \in seen : fpc[t] = "sent" /\ printable(desc[t]) )
  => /\ Len(report) = upstream.reqs
     /\ Cardinality(store.req) = upstream.reqs
     /\ Cardinality(store.task) = upstream.reqs

\* what a step of the fetch of t may do to the number of calls
CallStep(t) ==
  \/ calls'[t] = calls[t]
  \/ calls'[t] = 0
  \/ /\ calls'[t] = calls[t] + 1
     /\ fpc[t] = "loop"
     /\ errs[t] = calls[t]

\* C5: a fetch makes its calls one at a time, only while every earlier call
\* has failed, and at most 3: inside the loop fewer than 3 calls were made
\* and all of them failed; the fetch that goes on made 1 to 3 calls of which
\* only the last returned without error; the loop runs out after exactly 3
\* failed calls.
C5_OneToThreeCalls ==
  /\ [](\A t \in TaskIds :
          /\ fpc[t] = "loop" => calls[t] = errs[t] /\ calls[t] < Retries
          /\ fpc[t] = "send" => calls[t] = errs[t] + 1 /\ calls[t] \in 1..Retries
          /\ fpc[t] = "failed" => calls[t] = Retries /\ errs[t] = Retries)
  /\ [][\A t \in TaskIds : CallStep(t)]_vars

\* C5: the loop has run out after three failed calls
C5_Witness == \E t \in TaskIds : fpc[t] = "failed" /\ calls[t] = 3 /\ errs[t] = 3

\* C6: when all 3 attempts have failed the fetch only logs and returns: no
\* taskDesc of the task is sent, received, written to the report or handed to
\* addTask, and the cache holds no task row of it (hence no env or
\* docker_image row either).
C6_FailedTaskContributesNothing ==
  \A t \in TaskIds :
    /\ errs[t] = Retries => fpc[t] = "failed"
    /\ fpc[t] \in {"failed", "hard"} =>
         /\ t \notin Range(lines)
         /\ t \notin received
         /\ t \notin Range(written)
         /\ t \notin Range(report)
         /\ wpc[t] = "none"
         /\ TaskRowsOf(t) = {}
         /\ desc[t] = NoDesc

\* C6: a task failed hard while the line of another one reached the cache
C6_Witness ==
  \E t, u \in TaskIds :
    /\ fpc[t] = "hard"
    /\ TaskRowsOf(u) # {}

\* C7 (as claimed): when all 3 attempts have failed, three error entries are
\* logged for the task, one per attempt.
C7_LogPerAttempt ==
  \A t \in TaskIds : fpc[t] = "hard" => errLog[t] = Retries

\* C7 (amended): when all 3 attempts have failed, exactly one error entry is
\* logged for the task, after the last attempt; a fetch that has not failed
\* hard logs no error.
C7_OneLogAfterLastAttempt ==
  \A t \in TaskIds : errLog[t] = IF fpc[t] = "hard" THEN 1 ELSE 0

\* C7: a task has failed hard and its error was logged
C7_Witness == \E t \in TaskIds : fpc[t] = "hard" /\ errLog[t] = 1

\* the largest timestamp of a non-empty list of updates
MaxTimestamp(list) ==
  CHOOSE m \in {list[j].Timestamp : j \in DOMAIN list} :
    \A j \in DOMAIN list : list[j].Timestamp <= m

\* the first position of the list that has the largest timestamp
FirstLatest(list) ==
  Min({j \in DOMAIN list : list[j].Timestamp = MaxTimestamp(list)})

\* C8: when the call that succeeded returned a non-empty list, lastUpdate
\* points to the first element of that list that has the largest timestamp,
\* and the taskDesc carries its state.
C8_LatestUpdateSelected ==
  \A t \in TaskIds :
    (fpc[t] = "send" /\ taskUpdates[t] # << >>) =>
      /\ lastUpdate[t] = UpdatePtr(calls[t], taskUpdates[t], FirstLatest(taskUpdates[t]))
      /\ desc[t].update = taskUpdates[t][FirstLatest(taskUpdates[t])].TaskState

\* C8: after a failed call that carried an update, the call that succeeded
\* returned two updates with the same timestamp and different states, the
\* largest of the list
C8_Witness ==
  \E t \in TaskIds :
    /\ fpc[t] = "send"
    /\ errs[t] >= 1
    /\ Len(taskUpdates[t]) = 2
    /\ taskUpdates[t][1].Timestamp = taskUpdates[t][2].Timestamp
    /\ taskUpdates[t][1].TaskState # taskUpdates[t][2].TaskState

\* C9 (as claimed): a fetch whose successful call returned no update builds
\* a taskDesc without status update, and that taskDesc goes through tabRows
\* and addTask (status UNKNOWN) without a panic.
C9_EmptyHistoryCarried ==
  \A t \in TaskIds :
    /\ (fpc[t] = "send" /\ taskUpdates[t] = << >>) => desc[t].update = NoStatus
    /\ (t \in received /\ desc[t].update = NoStatus) =>
         /\ panic = "none"
         /\ \A k \in TaskRowsOf(t) : k.status = "UNKNOWN"

\* C10 (as claimed): printable does not panic, and the row of a received
\* line is written if and only if include-inactive is on, or the line has no
\* status update, or its status is TASK_RUNNING.
C10_PrintableIff ==
  /\ panic # "printable"
  /\ \A t \in received :
       t \in Range(written) <=>
         \/ printInactiveTasks
         \/ desc[t].update = NoStatus
         \/ desc[t].update = "TASK_RUNNING"

\* the scheduler runs some goroutine that can run
FairSpec == Init /\ [][Next]_vars /\ WF_vars(Next)

\* C11 (as claimed): when the run has ended, every line tabRows received was
\* written to the cache by addTask exactly once, printable or not, and has a
\* row in the report only if it is printable.
C11_EveryRecordCached ==
  mainpc = "exited" =>
    \A t \in received :
      /\ Cardinality(TaskRowsOf(t)) = 1
      /\ t \in Range(report) <=> printable(desc[t])

\* the fetch of t ended in a task-level failure
Failed(t) == fpc[t] \in {"hard", "soft"}

\* the step in which the fetch of t fails touches nothing but its own unit:
\* it gives back its unit of the counter and leaves main, tabRows, the
\* channel, the store and every other fetch as they were, without a panic
FailStep(t) ==
  (~Failed(t) /\ Failed(t)') =>
    /\ panic' = panic
    /\ counter' = counter - 1
    /\ UNCHANGED << mainVars, lines, sinkVars, report, dbVars, desc >>
    /\ \A u \in TaskIds \ {t} : fpc'[u] = fpc[u] /\ decs'[u] = decs[u]

NothingWritten == \A t \in TaskIds : wpc[t] = "none"

C18_SimpleStoreStartsEmpty ==
  (variant = "simple" /\ gpc = "ready") =>
    /\ NothingWritten => store = EmptyStore
    /\ Cardinality(store.task) = Cardinality({t \in TaskIds : wpc[t] = "finished"})

\* C18: an earlier run of the simple store wrote rows, and the file of this
\* run is empty when collection starts
C18_Witness ==
  /\ variant = "simple"
  /\ runs > 1
  /\ atOpen.task # {}
  /\ gpc = "ready"
  /\ store = EmptyStore

\* addTask(t) holds the Mutex
InTxn(t) == wpc[t] \in {"locked", "sing", "req", "task", "env", "docker"}

\* the request_ident addTask(t) passes to addReq
IdentOf(t) == ReqArgs(t, desc[t]).ident

\* addTask(t) takes the step that calls addReq and goes on
ReqStep(t) == wpc[t] = "sing" /\ wpc'[t] = "req"

\* C16: there is never more than one req row of a request_ident, and a call
\* of addReq that finds a row captured less than a second before now
\* returns the id of that row and leaves the req table as it is, whatever
\* the other addTask calls do and also in a later process inside the window.
C16_FreshRequestReused ==
  /\ [](\A id \in 1..upstream.requestIds : Cardinality(ReqRows(store, id)) <= 1)
  /\ [][ \A t \in TaskIds :
           (ReqStep(t) /\ \E r \in ReqRows(store, IdentOf(t)) :
                            Now - r.captured_at < FreshWindow)
             => /\ store'.req = store.req
                /\ \E r \in ReqRows(store, IdentOf(t)) : txn'[t].req = r.req_id ]_vars

\* C16: two tasks of one request were written by one process, and their
\* task rows refer to the one req row
C16_Witness ==
  /\ \A t \in TaskIds : wpc[t] = "returned"
  /\ Cardinality(store.req) = 1
  /\ Cardinality(store.task) = MaxTasks
  /\ \A k \in store.task : \A r \in store.req : k.req_id = r.req_id

\* C19: at most one addTask is inside its transaction, and it is the holder
\* of the Mutex; when its last statement is done the rows are those that the
\* whole of addTask makes from the rows it started with: no statement of
\* another addTask came in between.
C19_AddTaskSerialized ==
  /\ Cardinality({t \in TaskIds : InTxn(t)}) <= 1
  /\ \A t \in TaskIds : InTxn(t) => mutex = t
  /\ \A t \in TaskIds :
       wpc[t] = "docker" => store = addTask(txn[t].start, t, desc[t])

\* C19: an addTask has finished its transaction while the other one, spawned
\* as well, waits for the Mutex
C19_Witness ==
  \E t, u \in TaskIds :
    /\ wpc[t] = "docker"
    /\ mutex = t
    /\ wpc[u] = "added"

\* the rows that refer to the req rows of ids
TasksOf(s, ids) == {k \in s.task : k.req_id \in ids}

\* C20: a call of addReq that finds a row captured a second or more before
\* now deletes it, with the task rows that refer to it and the env and
\* docker_image rows of those tasks, inserts a new row captured now and
\* returns its id; and no row is ever left referring to a row that is gone.
C20_StaleRequestReplaced ==
  /\ [](/\ \A k \in store.task : \E r \in store.req : r.req_id = k.req_id
        /\ \A e \in store.env : \E k \in store.task : k.task_id = e.task_id
        /\ \A d \in store.docker_image : \E k \in store.task : k.task_id = d.task_id)
  /\ [][ \A t \in TaskIds :
           (ReqStep(t) /\ \E r \in ReqRows(store, IdentOf(t)) :
                            Now - r.captured_at >= FreshWindow)
             => LET old == {r.req_id : r \in ReqRows(store, IdentOf(t))}
                    gone == {k.task_id : k \in TasksOf(store, old)}
                IN /\ \A r \in store'.req : r.req_id \notin old
                   /\ TasksOf(store', old) = {}
                   /\ \A e \in store'.env : e.task_id \notin gone
                   /\ \A d \in store'.docker_image : d.task_id \notin gone
                   /\ \E q \in store'.req :
                        /\ q.request_ident = IdentOf(t)
                        /\ q.captured_at = Now
                        /\ q.req_id = txn'[t].req
                        /\ ReqRows(store', IdentOf(t)) = {q} ]_vars

\* C20: a later process found the stale req row of an earlier one, which had
\* task, env and docker_image rows: they are gone and the new row is there
C20_Witness ==
  /\ runs > 1
  /\ \E r \in atOpen.req : Now - r.captured_at >= FreshWindow
  /\ atOpen.task # {} /\ atOpen.env # {} /\ atOpen.docker_image # {}
  /\ store.task = {} /\ store.env = {} /\ store.docker_image = {}
  /\ \E t \in TaskIds :
       /\ wpc[t] = "req"
       /\ \E q \in store.req : q.req_id = txn[t].req /\ q.captured_at = Now

\* C17 (as claimed): a statement of addTask that returns an error never ends
\* the process, and addTask makes a log entry for each of them.
C17_WriteFailureLoggedAndSkipped ==
  /\ panic # "rows.Close"
  /\ \A t \in TaskIds : dbLog[t] = faults[t]

\* the req rows this process found in the file when it started
EarlierRows == atOpen.req

\* the ids of the req rows this process has inserted
OwnIds == (atOpen.seq.req + 1)..store.seq.req

\* addTask(t) is past its call of addReq, which returned txn[t].req
PastReq(t) == wpc[t] \in {"req", "task", "env", "docker"}

\* C21 (as claimed): whatever the start times of the runs, addReq never
\* returns the id of a req row that an earlier run wrote, and never deletes a
\* req row that the current run wrote.
C21_FreshIffCurrentRun ==
  /\ \A t \in TaskIds :
       PastReq(t) => txn[t].req \notin {r.req_id : r \in EarlierRows}
  /\ \A i \in OwnIds : \E r \in store.req : r.req_id = i

\* C21 (amended): addReq never deletes a req row that the current run wrote;
\* it returns the id of a row of an earlier run only when that row was
\* captured less than a second before the now of the current run, and such a
\* row is never deleted; a row of an earlier run captured a second or more
\* before is gone once an addReq for its request has returned.
C21_FreshIffInsideWindow ==
  /\ \A i \in OwnIds : \E r \in store.req : r.req_id = i
  /\ \A r \in EarlierRows :
       IF Now - r.captured_at < FreshWindow
         THEN r \in store.req
         ELSE \A t \in TaskIds :
                (PastReq(t) /\ IdentOf(t) = r.request_ident)
                  => /\ txn[t].req # r.req_id
                     /\ r \notin store.req
  /\ \A t \in TaskIds :
       PastReq(t) => \/ txn[t].req \in OwnIds
                     \/ \E r \in EarlierRows :
                          /\ r.req_id = txn[t].req
                          /\ Now - r.captured_at < FreshWindow

\* C21: a second process started less than a second after the first one and
\* its addReq returned the id of the row the first one wrote
C21_Witness ==
  /\ runs > 1
  /\ \E t \in TaskIds : \E r \in EarlierRows :
       /\ PastReq(t)
       /\ txn[t].req = r.req_id
       /\ r.captured_at = Now

\* the anonymous goroutines that have made their wait.Add(1)
Registered == {t \in TaskIds : wpc[t] \in {"added", "locked", "returned", "finished"}}

\* the anonymous goroutines that have made their wait.Done()
Finished == {t \in TaskIds : wpc[t] = "finished"}

\* C22: in every interleaving of main, the fetches, tabRows and the cache
\* writes the WaitGroup counter is never negative and no wait.Add(-1) or
\* wait.Done() panics: the decrements made for a fetch never exceed the
\* increments getTasks made for it, a cache write decrements only after its
\* own increment, and the counter is the increments less the decrements.
C22_CounterNeverNegative ==
  /\ counter >= 0
  /\ panic # "WaitGroup"
  /\ \A t \in TaskIds : decs[t] <= incs[t]
  /\ Finished \subseteq Registered
  /\ counter = (SumOver(incs, TaskIds) + Cardinality(Registered))
                 - (SumOver(decs, TaskIds) + Cardinality(Finished))

\* C22: every fetch was decremented, one by a failure path of getTask and
\* one by tabRows, whose cache write has made its own increment and
\* decrement: the counter is back at zero
C22_Witness ==
  /\ counter = 0
  /\ \E t, u \in TaskIds :
       /\ Failed(t) /\ decs[t] = 1
       /\ Consumed(u) /\ decs[u] = 1 /\ wpc[u] = "finished"

\* main has passed wait.Wait() and flushed the report
Flushed == mainpc \in {"close", "exited"}

\* the upstream returned a listing entry without id (main.go:80) or a task
\* without Task or Container (main.go:133, 141)
Malformed == panic \in {"getTasks", "getTask"}

\* C23 (as claimed): every upstream call returns and every cache write
\* finishes (no step of the model waits for ever on them), and under fair
\* scheduling main eventually passes the barrier and flushes the report,
\* whatever well-formed listings and task histories the upstream returns.
C23_MainEventuallyFlushes == <>(Flushed \/ Malformed)

\* the rows of the table child whose column key has no row in parent
Orphans(child, key, parent, id) ==
  {c \in child : \A q \in parent : q[id] # c[key]}

\* C24: in the fingerprinted store, across the runs and in every
\* interleaving of addTask calls, with stale requests evicted and statements
\* that fail, every task row refers to a req row, every env and docker_image
\* row to a task row and every req row to a singularity row that exists.
C24_NoOrphanRows ==
  /\ Orphans(store.req, "singularity_id", store.singularity, "singularity_id") = {}
  /\ Orphans(store.task, "req_id", store.req, "req_id") = {}
  /\ Orphans(store.env, "task_id", store.task, "task_id") = {}
  /\ Orphans(store.docker_image, "task_id", store.task, "task_id") = {}

\* C24: the second process evicted the stale request of the first one with
\* its task, env and docker_image rows, and wrote rows of its own
C24_Witness ==
  /\ runs > 1
  /\ atOpen.task # {} /\ atOpen.env # {} /\ atOpen.docker_image # {}
  /\ atOpen.req \cap store.req = {}
  /\ atOpen.task \cap store.task = {}
  /\ store.req # {} /\ store.task # {} /\ store.env # {} /\ store.docker_image # {}
  /\ \E t \in TaskIds : wpc[t] = "returned"

\* C25 (as claimed): in the earlier variant, when main has passed
\* wait.Wait() every task of the active-task list has either failed or had
\* its row written by tabRows, which has finished with it.
C25_EarlierBarrierCoversTasks ==
  PassedBarrier =>
    \A t \in seen :
      \/ fpc[t] = "soft"
      \/ t \in Range(written) /\ Consumed(t)

====
